---- MODULE Spec2Model ----
(***************************************************************************)
(* Model of the dataset-preparation driver                                 *)
(* (odometry/preprocessing/prepare_dataset.py) and of the loss/optimizer   *)
(* handling of ModelFactory (slam/models/model_factory.py).                *)
(*                                                                         *)
(* Paths are sequences of path components: the string "root/a/b" is the    *)
(* sequence <<"root", "a", "b">>.  The dataset root is a tree of at most   *)
(* MaxNodes entries hanging under node 0 (the root directory itself).      *)
(***************************************************************************)
EXTENDS Integers, Sequences, FiniteSets, TLC

VARIABLES
    fs,               \* the dataset tree: node -> [kind, name]
    scan_desc,        \* the order in which the OS lists a directory's entries
    pc,               \* position of the running program
    entry,            \* how prepare_dataset was entered: "none", "cli", "call"
    dataset_type,     \* prepare_dataset's dataset_type argument
    depth_checkpoint, \* prepare_dataset's depth_checkpoint argument
    limited,          \* limit_resources() has been applied
    output_dir,       \* prepare_dataset's local variable output_dir
    disk,             \* files below the run output directory: path -> content
    made_dirs,        \* directories created by output_dir.mkdir
    sf_estimators,    \* single-frame estimator chain
    pf_estimators,    \* pair-frame estimator chain
    n_built,          \* estimator objects constructed so far
    parser_class,     \* result of initialize_parser
    trajectories,     \* result of get_all_trajectories
    idx,              \* position of the for loop in trajectories (1-based)
    trajectory_parser,\* the parser instance of the current iteration
    calls,            \* history: the prepare_trajectory calls made
    log,              \* history: the steps of prepare_dataset, in order
    error,            \* the exception that left the program, or "none"
    factory           \* the ModelFactory object (model_factory.py)

driverVars == <<pc, entry, dataset_type, depth_checkpoint, limited, output_dir,
                disk, made_dirs, sf_estimators, pf_estimators, n_built,
                parser_class, trajectories, idx, trajectory_parser, calls,
                log, error>>
vars == <<fs, scan_desc, driverVars, factory>>

None == "None"

-----------------------------------------------------------------------------
(* The dataset tree.                                                       *)

MaxNodes == 6

Nodes == 1..MaxNodes
Root == 0

\* The fixed shape of the tree: which directory each entry would sit in.
Parent(n) ==
    CASE n = 1 -> 0
      [] n = 2 -> 1
      [] n = 3 -> 1
      [] n = 4 -> 2
      [] n = 5 -> 0
      [] n = 6 -> 5
      [] OTHER -> 6

Absent == [kind |-> "absent", name |-> ""]

Entries ==
    { Absent,
      [kind |-> "dir",  name |-> "a"],
      [kind |-> "dir",  name |-> "image_2"],
      [kind |-> "file", name |-> "rgb.txt"],
      [kind |-> "file", name |-> "x_traj.json"],
      [kind |-> "file", name |-> "camera_gt.csv"],
      [kind |-> "file", name |-> "notes.txt"] }

\* The smaller family of trees the driver is run on; one directory name is
\* the name of the table file the driver writes.
DriverEntries ==
    { Absent,
      [kind |-> "dir",  name |-> "a"],
      [kind |-> "dir",  name |-> "df.csv"],
      [kind |-> "file", name |-> "rgb.txt"] }

\* A tree the file system can hold: an entry sits in a directory, and the
\* names in one directory differ.
ValidTree(f) ==
    /\ \A n \in Nodes : f[n].kind # "absent" =>
           (Parent(n) = Root \/ f[Parent(n)].kind = "dir")
    /\ \A n, m \in Nodes :
           (n # m /\ Parent(n) = Parent(m) /\ f[n].kind # "absent"
                  /\ f[m].kind # "absent") => f[n].name # f[m].name

IsDir(d) == d = Root \/ fs[d].kind = "dir"

ChildSet(d) == {n \in Nodes : Parent(n) = d /\ fs[n].kind # "absent"}

RECURSIVE SeqOfSet(_)
SeqOfSet(S) ==
    IF S = {} THEN <<>>
    ELSE LET n == IF scan_desc
                  THEN CHOOSE x \in S : \A y \in S : y <= x
                  ELSE CHOOSE x \in S : \A y \in S : x <= y
         IN <<n>> \o SeqOfSet(S \ {n})

\* os.scandir(d): the entries of directory d, in the order the OS lists
\* them; nothing for a file.
scandir(d) == IF IsDir(d) THEN SeqOfSet(ChildSet(d)) ELSE <<>>

RECURSIVE PathOf(_)
\* d.as_posix() for the entry at node d.
PathOf(d) ==
    IF d = Root THEN <<"root">> ELSE Append(PathOf(Parent(d)), fs[d].name)

\* fnmatch of an entry name against one glob pattern of get_all_trajectories.
\* The only wildcard pattern is '*traj.json'; of the names of Entries,
\* "x_traj.json" is the one ending in "traj.json".
fnmatch(name, pattern) ==
    IF pattern = "*traj.json" THEN name \in {"x_traj.json", "traj.json"}
    ELSE IF pattern = "*" THEN TRUE
    ELSE name = pattern

\* list(d.glob(pattern)): the entries directly in d whose name matches.
glob(d, pattern) ==
    SelectSeq(scandir(d), LAMBDA c : fnmatch(fs[c].name, pattern))

RECURSIVE iterate_over(_)
\* pathlib's _iterate_directories over a list of entries: every directory,
\* parents first.
iterate_over(s) ==
    IF s = <<>> THEN <<>>
    ELSE LET h == Head(s)
         IN (IF fs[h].kind = "dir" THEN <<h>> \o iterate_over(scandir(h))
             ELSE <<>>) \o iterate_over(Tail(s))

iterate_directories(d) == <<d>> \o iterate_over(scandir(d))

RECURSIVE Dedup(_)
\* The "yielded" set of pathlib's recursive selector: a path comes out once.
Dedup(s) ==
    IF s = <<>> THEN <<>>
    ELSE LET r == Dedup(SubSeq(s, 1, Len(s) - 1))
             x == s[Len(s)]
         IN IF \E i \in 1..Len(r) : r[i] = x THEN r ELSE Append(r, x)

RECURSIVE select_children(_)
\* The successor selector '*' applied to each starting directory in turn.
select_children(dirs) ==
    IF dirs = <<>> THEN <<>>
    ELSE glob(Head(dirs), "*") \o select_children(Tail(dirs))

\* The inner '**' of the pattern '**/*', started at directory sp.
select_recursive(sp) == Dedup(select_children(iterate_directories(sp)))

RECURSIVE select_outer(_)
select_outer(dirs) ==
    IF dirs = <<>> THEN <<>>
    ELSE select_recursive(Head(dirs)) \o select_outer(Tail(dirs))

\* rglob without the selector's "yielded" set.
rglob_nodedup(d) == select_outer(iterate_directories(d))

\* dataset_root.rglob('**/*'): the selector chain '**', '**', '*'.
rglob(d) == Dedup(select_outer(iterate_directories(d)))

\* The condition of the if statement in get_all_trajectories.
HasMarker(d) ==
    \/ glob(d, "*traj.json") # <<>>
    \/ glob(d, "rgb.txt") # <<>>
    \/ glob(d, "image_2") # <<>>
    \/ glob(d, "camera_gt.csv") # <<>>

RECURSIVE collect(_)
collect(ds) ==
    IF ds = <<>> THEN <<>>
    ELSE (IF HasMarker(Head(ds)) THEN <<PathOf(Head(ds))>> ELSE <<>>)
             \o collect(Tail(ds))

\* get_all_trajectories(dataset_root)
get_all_trajectories(root) == collect(rglob(root))

-----------------------------------------------------------------------------
(* prepare_dataset.py: the pure helpers.                                   *)

DatasetTags == {"kitti", "discoman", "tum", "retailbot", "retailbox", "euroc"}

\* choices= of the --dataset option
CliChoices == {"kitti", "discoman", "tum", "retailbox"}

ParserClasses ==
    {"KITTIParser", "DISCOMANJSONParser", "TUMParser", "RetailBotParser"}

\* initialize_parser with the last branch returning the class of the one before.
initialize_parser_copied(dataset_type_arg) ==
    CASE dataset_type_arg = "kitti" -> "KITTIParser"
      [] dataset_type_arg = "discoman" -> "DISCOMANJSONParser"
      [] dataset_type_arg = "tum" -> "TUMParser"
      [] dataset_type_arg = "retailbot" -> "TUMParser"
      [] OTHER -> "RuntimeError"

\* initialize_parser(dataset_type): the parser class, or "RuntimeError" when
\* the function raises RuntimeError('Unexpected dataset type').
initialize_parser(dataset_type_arg) ==
    CASE dataset_type_arg = "kitti" -> "KITTIParser"
      [] dataset_type_arg = "discoman" -> "DISCOMANJSONParser"
      [] dataset_type_arg = "tum" -> "TUMParser"
      [] dataset_type_arg = "retailbot" -> "RetailBotParser"
      [] OTHER -> "RuntimeError"

\* str2bool(v): TRUE, FALSE, or "ArgumentTypeError".  Lower is v.lower() on
\* the flag values the model passes.
Lower(v) ==
    CASE v = "Yes" -> "yes"
      [] v = "T" -> "t"
      [] v = "No" -> "no"
      [] OTHER -> v

str2bool(v) ==
    IF Lower(v) \in {"yes", "true", "t", "y", "1"} THEN "True"
    ELSE IF Lower(v) \in {"no", "false", "f", "n", "0"} THEN "False"
    ELSE "ArgumentTypeError"

\* Python truth value of a checkpoint argument (None or a string).
Truthy(v) == v # None /\ v # ""

\* An estimator object; id tells the instances apart.
Estimator(cls, checkpoint, id) ==
    [cls |-> cls, checkpoint |-> checkpoint, id |-> id]

\* initialize_estimators with the depth estimator appended unconditionally.
initialize_estimators_always(optical_flow_checkpoint, depth_ckpt, n) ==
    [sf |-> << Estimator("Quaternion2EulerEstimator", None, n + 1),
               Estimator("Struct2DepthEstimator", depth_ckpt, n + 2) >>,
     pf |-> << Estimator("Global2RelativeEstimator", None, n + 3),
               Estimator("PWCNetEstimator", optical_flow_checkpoint, n + 4) >>,
     built |-> n + 4]

\* initialize_estimators(target_size, optical_flow_checkpoint,
\* depth_checkpoint), called when n estimator objects exist: the two lists
\* and the number of objects existing afterwards.  target_size only sets the
\* height and width of the depth estimator and is left out.
initialize_estimators(optical_flow_checkpoint, depth_ckpt, n) ==
    LET single_frame_estimators ==
            << Estimator("Quaternion2EulerEstimator", None, n + 1) >>
        with_depth ==
            IF Truthy(depth_ckpt)
            THEN Append(single_frame_estimators,
                        Estimator("Struct2DepthEstimator", depth_ckpt, n + 2))
            ELSE single_frame_estimators
        k == n + Len(with_depth)
    IN [sf |-> with_depth,
        pf |-> << Estimator("Global2RelativeEstimator", None, k + 1),
                  Estimator("PWCNetEstimator", optical_flow_checkpoint, k + 2) >>,
        built |-> k + 2]

\* os.path.basename of a path string
basename(path) == path[Len(path)]

\* Path.joinpath with one relative component
joinpath(dir, name) == Append(dir, name)

\* The output_dir argument a run is started with.
RunOutputDir == <<"out">>

OpticalFlowCheckpoint == "pwcnet.ckpt-84000"
DefaultDepthCheckpoint == "weights/model-199160"

\* open(path, 'w+') / to_csv: the file is created or replaced.
WriteFile(d, path, content) ==
    {f \in d : f.path # path} \cup {[path |-> path, content |-> content]}

\* A regular file has this path.
OnDisk(path) == \E f \in disk : f.path = path

NoParser == [cls |-> None, trajectory |-> <<>>]

-----------------------------------------------------------------------------
(* prepare_dataset.py: the script entry point and prepare_dataset, one     *)
(* action per statement.                                                   *)

\* One entry of the history of steps.
Step(name, i, path) == [step |-> name, i |-> i, path |-> path]

\* prepare_dataset resolving the parser class before anything else.
NextStep_parser_first(step) ==
    CASE step = "enter" -> "initialize_parser"
      [] step = "initialize_parser" -> "limit_resources"
      [] step = "limit_resources" -> "mkdir"
      [] step = "mkdir" -> "set_logger"
      [] step = "set_logger" -> "initialize_estimators"
      [] step = "initialize_estimators" -> "get_all_trajectories"
      [] step = "get_all_trajectories" -> "write_config"
      [] OTHER -> "for"

\* The order of the statements of prepare_dataset before its for loop.
NextStep(step) ==
    CASE step = "enter" -> "limit_resources"
      [] step = "limit_resources" -> "mkdir"
      [] step = "mkdir" -> "set_logger"
      [] step = "set_logger" -> "initialize_estimators"
      [] step = "initialize_estimators" -> "initialize_parser"
      [] step = "initialize_parser" -> "get_all_trajectories"
      [] step = "get_all_trajectories" -> "write_config"
      [] OTHER -> "for"

\* The directory of the next trajectory, always below the run's directory.
NextOutputDir_fresh(dir, trajectory_name) ==
    joinpath(RunOutputDir, trajectory_name)

\* output_dir = output_dir.joinpath(trajectory_name)
NextOutputDir(dir, trajectory_name) == joinpath(dir, trajectory_name)

Idle ==
    /\ entry = "none" /\ dataset_type = None /\ depth_checkpoint = None
    /\ limited = FALSE /\ output_dir = <<>> /\ disk = {} /\ made_dirs = {}
    /\ sf_estimators = <<>> /\ pf_estimators = <<>> /\ n_built = 0
    /\ parser_class = None /\ trajectories = <<>> /\ idx = 0
    /\ trajectory_parser = NoParser /\ calls = <<>> /\ log = <<>>
    /\ error = "none"

NoFactory ==
    [pc |-> "none", loss |-> [type |-> "none", val |-> None],
     optimizer |-> None, loss_fn |-> None, model |-> None,
     compiled |-> FALSE, error |-> "none"]

Init ==
    /\ fs \in {f \in [Nodes -> DriverEntries] : ValidTree(f)}
    /\ scan_desc \in BOOLEAN
    /\ pc = "start"
    /\ Idle
    /\ factory = NoFactory

\* python prepare_dataset.py --dataset ds --depth flag --depth_checkpoint dc
\* (ds = None: the option is not given, and args.dataset is None)
MainCLI ==
    /\ pc = "start"
    /\ \E ds \in DatasetTags \cup {None},
          flag \in {"default", "Yes", "0", "maybe"},
          dc \in {DefaultDepthCheckpoint, ""} :
         LET depth == IF flag = "default" THEN "True" ELSE str2bool(flag)
         IN IF (ds # None /\ ds \notin CliChoices)
               \/ depth = "ArgumentTypeError"
            THEN /\ pc' = "usage_error"
                 /\ error' = "SystemExit"
                 /\ UNCHANGED <<entry, dataset_type, depth_checkpoint,
                                output_dir>>
            ELSE /\ pc' = NextStep("enter")
                 /\ entry' = "cli"
                 /\ dataset_type' = ds
                 /\ depth_checkpoint' = IF depth = "True" THEN dc ELSE None
                 /\ output_dir' = RunOutputDir
                 /\ error' = error
    /\ UNCHANGED <<fs, scan_desc, limited, disk, made_dirs, sf_estimators,
                   pf_estimators, n_built, parser_class, trajectories, idx,
                   trajectory_parser, calls, log, factory>>

\* prepare_dataset called as a function
CallPrepareDataset ==
    /\ pc = "start"
    /\ \E ds \in DatasetTags, dc \in {None, "", DefaultDepthCheckpoint} :
         /\ dataset_type' = ds
         /\ depth_checkpoint' = dc
    /\ entry' = "call"
    /\ output_dir' = RunOutputDir
    /\ pc' = NextStep("enter")
    /\ UNCHANGED <<fs, scan_desc, limited, disk, made_dirs, sf_estimators,
                   pf_estimators, n_built, parser_class, trajectories, idx,
                   trajectory_parser, calls, log, error, factory>>

LimitResources ==
    /\ pc = "limit_resources"
    /\ limited' = TRUE
    /\ log' = Append(log, Step("limit_resources", 0, <<>>))
    /\ pc' = NextStep(pc)
    /\ UNCHANGED <<fs, scan_desc, entry, dataset_type, depth_checkpoint,
                   output_dir, disk, made_dirs, sf_estimators, pf_estimators,
                   n_built, parser_class, trajectories, idx,
                   trajectory_parser, calls, error, factory>>

MkOutputDir ==
    /\ pc = "mkdir"
    /\ made_dirs' = made_dirs \cup {output_dir}
    /\ log' = Append(log, Step("mkdir", 0, output_dir))
    /\ pc' = NextStep(pc)
    /\ UNCHANGED <<fs, scan_desc, entry, dataset_type, depth_checkpoint,
                   limited, output_dir, disk, sf_estimators, pf_estimators,
                   n_built, parser_class, trajectories, idx,
                   trajectory_parser, calls, error, factory>>

SetLogger ==
    /\ pc = "set_logger"
    /\ disk' = WriteFile(disk, joinpath(output_dir, "log.txt"),
                         [kind |-> "log", of |-> <<>>])
    /\ log' = Append(log, Step("set_logger", 0, joinpath(output_dir, "log.txt")))
    /\ pc' = NextStep(pc)
    /\ UNCHANGED <<fs, scan_desc, entry, dataset_type, depth_checkpoint,
                   limited, output_dir, made_dirs, sf_estimators,
                   pf_estimators, n_built, parser_class, trajectories, idx,
                   trajectory_parser, calls, error, factory>>

InitializeEstimators ==
    /\ pc = "initialize_estimators"
    /\ LET r == initialize_estimators(OpticalFlowCheckpoint, depth_checkpoint,
                                      n_built)
       IN /\ sf_estimators' = r.sf
          /\ pf_estimators' = r.pf
          /\ n_built' = r.built
    /\ log' = Append(log, Step("initialize_estimators", 0, <<>>))
    /\ pc' = NextStep(pc)
    /\ UNCHANGED <<fs, scan_desc, entry, dataset_type, depth_checkpoint,
                   limited, output_dir, disk, made_dirs, parser_class,
                   trajectories, idx, trajectory_parser, calls, error,
                   factory>>

\* An estimator constructor raises (a checkpoint that cannot be loaded).
InitializeEstimatorsRaises ==
    /\ pc = "initialize_estimators"
    /\ log' = Append(log, Step("raise", 0, <<>>))
    /\ pc' = "raised"
    /\ error' = "CheckpointError"
    /\ UNCHANGED <<fs, scan_desc, entry, dataset_type, depth_checkpoint,
                   limited, output_dir, disk, made_dirs, sf_estimators,
                   pf_estimators, n_built, parser_class, trajectories, idx,
                   trajectory_parser, calls, factory>>

InitializeParser ==
    /\ pc = "initialize_parser"
    /\ LET r == initialize_parser(dataset_type)
       IN IF r = "RuntimeError"
          THEN /\ pc' = "raised"
               /\ error' = "RuntimeError"
               /\ log' = Append(log, Step("raise", 0, <<>>))
               /\ UNCHANGED parser_class
          ELSE /\ pc' = NextStep(pc)
               /\ parser_class' = r
               /\ log' = Append(log, Step("initialize_parser", 0, <<>>))
               /\ UNCHANGED error
    /\ UNCHANGED <<fs, scan_desc, entry, dataset_type, depth_checkpoint,
                   limited, output_dir, disk, made_dirs, sf_estimators,
                   pf_estimators, n_built, trajectories, idx,
                   trajectory_parser, calls, factory>>

GetAllTrajectories ==
    /\ pc = "get_all_trajectories"
    /\ trajectories' = get_all_trajectories(Root)
    /\ log' = Append(log, Step("get_all_trajectories", 0, <<>>))
    /\ pc' = NextStep(pc)
    /\ UNCHANGED <<fs, scan_desc, entry, dataset_type, depth_checkpoint,
                   limited, output_dir, disk, made_dirs, sf_estimators,
                   pf_estimators, n_built, parser_class, idx,
                   trajectory_parser, calls, error, factory>>

WriteConfig ==
    /\ pc = "write_config"
    /\ disk' = WriteFile(disk, joinpath(output_dir, "config.json"),
                         [kind |-> "config",
                          of |-> <<depth_checkpoint, OpticalFlowCheckpoint>>])
    /\ log' = Append(log, Step("write_config", 0,
                               joinpath(output_dir, "config.json")))
    /\ pc' = NextStep(pc)
    /\ UNCHANGED <<fs, scan_desc, entry, dataset_type, depth_checkpoint,
                   limited, output_dir, made_dirs, sf_estimators,
                   pf_estimators, n_built, parser_class, trajectories, idx,
                   trajectory_parser, calls, error, factory>>

\* for trajectory in tqdm(trajectories): the next trajectory
ForNext ==
    /\ pc = "for"
    /\ idx < Len(trajectories)
    /\ idx' = idx + 1
    /\ pc' = "construct_parser"
    /\ UNCHANGED <<fs, scan_desc, entry, dataset_type, depth_checkpoint,
                   limited, output_dir, disk, made_dirs, sf_estimators,
                   pf_estimators, n_built, parser_class, trajectories,
                   trajectory_parser, calls, log, error, factory>>

\* the list is exhausted: prepare_dataset returns
ForEnd ==
    /\ pc = "for"
    /\ idx = Len(trajectories)
    /\ pc' = "done"
    /\ UNCHANGED <<fs, scan_desc, entry, dataset_type, depth_checkpoint,
                   limited, output_dir, disk, made_dirs, sf_estimators,
                   pf_estimators, n_built, parser_class, trajectories, idx,
                   trajectory_parser, calls, log, error, factory>>

ConstructParser ==
    /\ pc = "construct_parser"
    /\ trajectory_parser' = [cls |-> parser_class,
                             trajectory |-> trajectories[idx]]
    /\ log' = Append(log, Step("construct_parser", idx, trajectories[idx]))
    /\ pc' = "prepare_trajectory"
    /\ UNCHANGED <<fs, scan_desc, entry, dataset_type, depth_checkpoint,
                   limited, output_dir, disk, made_dirs, sf_estimators,
                   pf_estimators, n_built, parser_class, trajectories, idx,
                   calls, error, factory>>

ConstructParserRaises ==
    /\ pc = "construct_parser"
    /\ log' = Append(log, Step("raise", idx, trajectories[idx]))
    /\ pc' = "raised"
    /\ error' = "ParserError"
    /\ UNCHANGED <<fs, scan_desc, entry, dataset_type, depth_checkpoint,
                   limited, output_dir, disk, made_dirs, sf_estimators,
                   pf_estimators, n_built, parser_class, trajectories, idx,
                   trajectory_parser, calls, factory>>

\* One prepare_trajectory call, as the history keeps it.
Call(dir, chains) ==
    [trajectory |-> trajectories[idx], dir |-> dir,
     parser |-> trajectory_parser, sf |-> chains.sf, pf |-> chains.pf]

\* prepare_trajectory handed chains constructed for this trajectory.
PrepareTrajectory_rebuild ==
    /\ pc = "prepare_trajectory"
    /\ LET dir == NextOutputDir(output_dir, basename(trajectories[idx]))
           r == initialize_estimators(OpticalFlowCheckpoint, depth_checkpoint,
                                      n_built)
       IN /\ output_dir' = dir
          /\ calls' = Append(calls, Call(dir, r))
          /\ made_dirs' = made_dirs \cup {dir}
          /\ log' = Append(log, Step("prepare_trajectory", idx, dir))
          /\ sf_estimators' = r.sf
          /\ pf_estimators' = r.pf
          /\ n_built' = r.built
    /\ pc' = "to_csv"
    /\ UNCHANGED <<fs, scan_desc, entry, dataset_type, depth_checkpoint,
                   limited, disk, parser_class, trajectories, idx,
                   trajectory_parser, error, factory>>

\* trajectory_name, the reassignment of output_dir, and prepare_trajectory
\* returning the table (it creates the directory it is handed, which it
\* cannot do where a regular file already has that path).
PrepareTrajectory ==
    /\ pc = "prepare_trajectory"
    /\ LET dir == NextOutputDir(output_dir, basename(trajectories[idx]))
       IN /\ ~OnDisk(dir)
          /\ output_dir' = dir
          /\ calls' = Append(calls,
                 Call(dir, [sf |-> sf_estimators, pf |-> pf_estimators]))
          /\ made_dirs' = made_dirs \cup {dir}
          /\ log' = Append(log, Step("prepare_trajectory", idx, dir))
    /\ pc' = "to_csv"
    /\ UNCHANGED <<fs, scan_desc, entry, dataset_type, depth_checkpoint,
                   limited, disk, sf_estimators, pf_estimators, n_built,
                   parser_class, trajectories, idx, trajectory_parser, error,
                   factory>>

\* The exception of prepare_trajectory caught and the loop continued.
PrepareTrajectoryRaises_caught ==
    /\ pc = "prepare_trajectory"
    /\ LET dir == NextOutputDir(output_dir, basename(trajectories[idx]))
       IN /\ output_dir' = dir
          /\ calls' = Append(calls,
                 Call(dir, [sf |-> sf_estimators, pf |-> pf_estimators]))
          /\ log' = Append(log, Step("raise", idx, trajectories[idx]))
    /\ pc' = "for"
    /\ UNCHANGED <<fs, scan_desc, entry, dataset_type, depth_checkpoint,
                   limited, disk, made_dirs, sf_estimators, pf_estimators,
                   n_built, parser_class, trajectories, idx,
                   trajectory_parser, error, factory>>

\* prepare_trajectory raises: the exception leaves prepare_dataset.
PrepareTrajectoryRaises ==
    /\ pc = "prepare_trajectory"
    /\ LET dir == NextOutputDir(output_dir, basename(trajectories[idx]))
       IN /\ output_dir' = dir
          /\ calls' = Append(calls,
                 Call(dir, [sf |-> sf_estimators, pf |-> pf_estimators]))
          /\ log' = Append(log, Step("raise", idx, trajectories[idx]))
    /\ pc' = "raised"
    /\ error' = "TrajectoryError"
    /\ UNCHANGED <<fs, scan_desc, entry, dataset_type, depth_checkpoint,
                   limited, disk, made_dirs, sf_estimators, pf_estimators,
                   n_built, parser_class, trajectories, idx,
                   trajectory_parser, factory>>

\* df.to_csv(output_dir.joinpath('df.csv').as_posix(), index=False)
ToCsv ==
    /\ pc = "to_csv"
    /\ disk' = WriteFile(disk, joinpath(output_dir, "df.csv"),
                         [kind |-> "csv", of |-> trajectories[idx]])
    /\ log' = Append(log, Step("to_csv", idx, joinpath(output_dir, "df.csv")))
    /\ pc' = "for"
    /\ UNCHANGED <<fs, scan_desc, entry, dataset_type, depth_checkpoint,
                   limited, output_dir, made_dirs, sf_estimators,
                   pf_estimators, n_built, parser_class, trajectories, idx,
                   trajectory_parser, calls, error, factory>>

ToCsvRaises ==
    /\ pc = "to_csv"
    /\ log' = Append(log, Step("raise", idx, trajectories[idx]))
    /\ pc' = "raised"
    /\ error' = "CsvError"
    /\ UNCHANGED <<fs, scan_desc, entry, dataset_type, depth_checkpoint,
                   limited, output_dir, disk, made_dirs, sf_estimators,
                   pf_estimators, n_built, parser_class, trajectories, idx,
                   trajectory_parser, calls, factory>>

Next ==
    \/ MainCLI
    \/ CallPrepareDataset
    \/ LimitResources
    \/ MkOutputDir
    \/ SetLogger
    \/ InitializeEstimators
    \/ InitializeEstimatorsRaises
    \/ InitializeParser
    \/ GetAllTrajectories
    \/ WriteConfig
    \/ ForNext
    \/ ForEnd
    \/ ConstructParser
    \/ ConstructParserRaises
    \/ PrepareTrajectory
    \/ PrepareTrajectoryRaises
    \/ ToCsv
    \/ ToCsvRaises

Spec == Init /\ [][Next]_vars

-----------------------------------------------------------------------------
(* Discovery on its own: get_all_trajectories applied to every tree.       *)

InitDiscovery ==
    /\ fs \in {f \in [Nodes -> Entries] : ValidTree(f)}
    /\ scan_desc \in BOOLEAN
    /\ pc = "start"
    /\ Idle
    /\ factory = NoFactory

CallGetAllTrajectories ==
    /\ pc = "start"
    /\ trajectories' = get_all_trajectories(Root)
    /\ pc' = "returned"
    /\ UNCHANGED <<fs, scan_desc, entry, dataset_type, depth_checkpoint,
                   limited, output_dir, disk, made_dirs, sf_estimators,
                   pf_estimators, n_built, parser_class, idx,
                   trajectory_parser, calls, log, error, factory>>

NextDiscovery == CallGetAllTrajectories

SpecDiscovery == InitDiscovery /\ [][NextDiscovery]_vars

-----------------------------------------------------------------------------
(* model_factory.py: ModelFactory.__init__ and construct.                  *)

\* The loss functions imported from slam.models.losses.
KnownLossFns ==
    {"mean_squared_error", "mean_absolute_error",
     "mean_squared_logarithmic_error",
     "mean_squared_signed_logarithmic_error", "rmse", "smooth_L1",
     "confidence_error"}

RecognisedLossNames ==
    {"mse", "mean_squared_error", "mae", "mean_absolute_error", "msle",
     "mean_squared_logarithmic_error", "mssle",
     "mean_squared_signed_logarithmic_error", "rmse",
     "root_mean_squared_error", "huber", "smoothl1", "smooth_l1",
     "confidence", "confidence_error"}

\* loss.lower() on the loss names the model passes
LowerLoss(v) ==
    CASE v = "MSE" -> "mse"
      [] v = "Huber" -> "huber"
      [] v = "Smooth_L1" -> "smooth_l1"
      [] OTHER -> v

Str(v) == [type |-> "str", val |-> v]

\* The loss arguments a ModelFactory is constructed with: names, callables,
\* and values that are neither.
LossArgs ==
    {Str(v) : v \in RecognisedLossNames
                    \cup {"MSE", "Huber", "Smooth_L1", "l2", "hinge", ""}}
    \cup {[type |-> "callable", val |-> "mean_squared_error"],
          [type |-> "callable", val |-> "custom_loss"],
          [type |-> "none", val |-> None],
          [type |-> "int", val |-> "3"]}

OptimizerArgs == {"adam", "Adam", "sgd"}

\* ModelFactory._get_loss_function(loss): the function returned, None when
\* the str branch falls off its end, "ValueError" when the method raises.
get_loss_function(loss) ==
    IF loss.type = "str"
    THEN LET l == LowerLoss(loss.val)
         IN CASE l \in {"mse", "mean_squared_error"} -> "mean_squared_error"
              [] l \in {"mae", "mean_absolute_error"} -> "mean_absolute_error"
              [] l \in {"msle", "mean_squared_logarithmic_error"} ->
                     "mean_squared_logarithmic_error"
              [] l \in {"mssle", "mean_squared_signed_logarithmic_error"} ->
                     "mean_squared_signed_logarithmic_error"
              [] l \in {"rmse", "root_mean_squared_error"} -> "rmse"
              [] l \in {"huber", "smoothl1", "smooth_l1"} -> "smooth_L1"
              [] l \in {"confidence", "confidence_error"} -> "confidence_error"
              [] OTHER -> None
    ELSE IF loss.type = "callable" THEN loss.val
    ELSE "ValueError"

\* ModelFactory._get_optimizer(): "Adam", or "ValueError" when it raises.
get_optimizer(optimizer) ==
    IF optimizer = "adam" THEN "Adam" ELSE "ValueError"

InitFactory ==
    /\ fs = [n \in Nodes |-> Absent]
    /\ scan_desc = FALSE
    /\ pc = "start"
    /\ Idle
    /\ factory = NoFactory

\* ModelFactory(construct_graph_fn, loss=loss, optimizer=optimizer)
FactoryInit ==
    /\ factory.pc = "none"
    /\ \E loss \in LossArgs, optimizer \in OptimizerArgs :
         LET fn == get_loss_function(loss)
         IN factory' =
              IF fn = "ValueError"
              THEN [factory EXCEPT !.pc = "init_raised", !.loss = loss,
                                   !.optimizer = optimizer,
                                   !.error = "ValueError"]
              ELSE [factory EXCEPT !.pc = "constructed", !.loss = loss,
                                   !.optimizer = optimizer, !.loss_fn = fn]
    /\ UNCHANGED <<fs, scan_desc, driverVars>>

\* construct(): the inputs, the graph and the Model
FactoryBuildModel ==
    /\ factory.pc = "constructed"
    /\ factory' = [factory EXCEPT !.pc = "compile", !.model = "Model"]
    /\ UNCHANGED <<fs, scan_desc, driverVars>>

\* construct(): self._compile() with a known optimizer
FactoryCompile ==
    /\ factory.pc = "compile"
    /\ get_optimizer(factory.optimizer) # "ValueError"
    /\ factory' = [factory EXCEPT !.pc = "compiled", !.compiled = TRUE]
    /\ UNCHANGED <<fs, scan_desc, driverVars>>

\* construct(): self._compile() raises in _get_optimizer
FactoryCompileRaises ==
    /\ factory.pc = "compile"
    /\ get_optimizer(factory.optimizer) = "ValueError"
    /\ factory' = [factory EXCEPT !.pc = "construct_raised",
                                  !.error = "ValueError"]
    /\ UNCHANGED <<fs, scan_desc, driverVars>>

\* construct(): the parameter count is logged and the model returned
FactoryReturn ==
    /\ factory.pc = "compiled"
    /\ factory' = [factory EXCEPT !.pc = "returned"]
    /\ UNCHANGED <<fs, scan_desc, driverVars>>

NextFactory ==
    \/ FactoryInit
    \/ FactoryBuildModel
    \/ FactoryCompile
    \/ FactoryCompileRaises
    \/ FactoryReturn

SpecFactory == InitFactory /\ [][NextFactory]_vars

-----------------------------------------------------------------------------
(* The claims.                                                             *)

Steps(name) == {j \in 1..Len(log) : log[j].step = name}
Reached(name) == Steps(name) # {}
TrajectoryDir(t) == joinpath(RunOutputDir, basename(t))

\* C1: every trajectory's directory, as handed to prepare_trajectory and as
\* holding df.csv, is <run output directory>/<basename of the trajectory>.
C1_DirUnderRunOutputDir ==
    /\ \A c \in 1..Len(calls) :
           calls[c].dir = TrajectoryDir(calls[c].trajectory)
    /\ \A j \in Steps("to_csv") :
           log[j].path = joinpath(TrajectoryDir(trajectories[log[j].i]), "df.csv")

AcceptedTags == {t \in DatasetTags : initialize_parser(t) # "RuntimeError"}

\* C2: initialize_parser accepts exactly four tags, gives each its own parser
\* class, and raises RuntimeError for every other tag; the run then holds
\* the class of its tag, or ends in RuntimeError with nothing else changed.
C2_ParserSelection ==
    /\ [](/\ AcceptedTags = {"kitti", "discoman", "tum", "retailbot"}
          /\ \A t \in AcceptedTags : initialize_parser(t) \in ParserClasses
          /\ \A t, u \in AcceptedTags :
                 initialize_parser(t) = initialize_parser(u) => t = u
          /\ Reached("initialize_parser") =>
                 /\ dataset_type \in AcceptedTags
                 /\ parser_class = initialize_parser(dataset_type)
                 /\ error # "RuntimeError"
          /\ error = "RuntimeError" =>
                 /\ dataset_type \notin AcceptedTags
                 /\ parser_class = None)
    /\ [][(pc = "initialize_parser" /\ dataset_type \notin AcceptedTags) =>
              /\ error' = "RuntimeError"
              /\ UNCHANGED <<fs, scan_desc, entry, dataset_type,
                             depth_checkpoint, limited, output_dir, disk,
                             made_dirs, sf_estimators, pf_estimators, n_built,
                             parser_class, trajectories, idx,
                             trajectory_parser, calls, factory>>]_vars

C2_Witness ==
    /\ error = "RuntimeError"
    /\ dataset_type = "euroc"

\* C3: a run started from the command line with an accepted --dataset value
\* never ends in the 'Unexpected dataset type' RuntimeError.
C3_CliTagNeverUnexpected ==
    (entry = "cli" /\ dataset_type \in CliChoices) => error # "RuntimeError"

LoopSteps == {"construct_parser", "prepare_trajectory", "to_csv", "raise"}

\* C4: an exception raised while the k-th trajectory is processed leaves
\* prepare_dataset: it is the last thing the run does, no later trajectory
\* is touched, and config.json and the df.csv files of the trajectories
\* before the k-th stay on disk as written.
C4_FailureAborts ==
    /\ [](/\ \A j \in Steps("raise") :
                 j = Len(log) /\ pc = "raised" /\ error # "none"
          /\ (pc = "raised" /\ idx >= 1) =>
                 /\ \A j \in 1..Len(log) : log[j].i <= idx
                 /\ Len(calls) <= idx
                 /\ Steps("to_csv") = {j \in 1..Len(log) :
                        log[j].step = "to_csv" /\ log[j].i < idx}
                 /\ Cardinality(Steps("to_csv")) = idx - 1
                 /\ \A j \in Steps("to_csv") :
                        [path |-> log[j].path,
                         content |-> [kind |-> "csv",
                                      of |-> trajectories[log[j].i]]] \in disk
                 /\ [path |-> joinpath(RunOutputDir, "config.json"),
                     content |-> [kind |-> "config",
                                  of |-> <<depth_checkpoint,
                                           OpticalFlowCheckpoint>>]] \in disk)
    /\ [][pc # "raised"]_vars
    /\ [][\A f \in disk : f.content.kind \in {"csv", "config"} => f \in disk']_vars

C4_Witness ==
    /\ pc = "raised"
    /\ idx = 2
    /\ Cardinality(Steps("to_csv")) = 1
    /\ Len(trajectories) = 3

\* C5 as claimed: when the tag is unsupported the error is raised before any
\* work: no estimator constructed, nothing created or written, no trajectory
\* discovered or processed.
C5_ErrorBeforeAnyWork ==
    error = "RuntimeError" =>
        /\ n_built = 0
        /\ sf_estimators = <<>> /\ pf_estimators = <<>>
        /\ made_dirs = {}
        /\ disk = {}
        /\ ~Reached("get_all_trajectories")
        /\ calls = <<>>

\* C5 as amended: when the tag is unsupported the error is raised after the
\* resource limit was applied, the output directory and log.txt created and
\* both estimator chains constructed, and before config.json is written and
\* before any trajectory is discovered or processed.
C5_ErrorAfterSetup ==
    error = "RuntimeError" =>
        /\ limited
        /\ RunOutputDir \in made_dirs
        /\ OnDisk(joinpath(RunOutputDir, "log.txt"))
        /\ Reached("initialize_estimators")
        /\ n_built >= 3
        /\ sf_estimators # <<>> /\ Len(pf_estimators) = 2
        /\ ~OnDisk(joinpath(RunOutputDir, "config.json"))
        /\ ~Reached("get_all_trajectories")
        /\ trajectories = <<>>
        /\ calls = <<>>
        /\ ~Reached("to_csv")

C5_Witness ==
    /\ error = "RuntimeError"
    /\ entry = "call"
    /\ Truthy(depth_checkpoint)

DepthSupplied == depth_checkpoint \notin {None, ""}

\* C6: the single-frame list starts with the quaternion-to-Euler estimator
\* and holds a depth estimator, second and last, exactly when a depth
\* checkpoint is supplied; the pair-frame list is always the relative-pose
\* estimator followed by the optical-flow estimator.
C6_EstimatorLists ==
    Reached("initialize_estimators") =>
        /\ Len(sf_estimators) \in {1, 2}
        /\ sf_estimators[1].cls = "Quaternion2EulerEstimator"
        /\ (\E k \in 1..Len(sf_estimators) :
                sf_estimators[k].cls = "Struct2DepthEstimator") <=> DepthSupplied
        /\ DepthSupplied =>
               /\ Len(sf_estimators) = 2
               /\ sf_estimators[2].cls = "Struct2DepthEstimator"
               /\ sf_estimators[2].checkpoint = depth_checkpoint
        /\ Len(pf_estimators) = 2
        /\ pf_estimators[1].cls = "Global2RelativeEstimator"
        /\ pf_estimators[2].cls = "PWCNetEstimator"
        /\ pf_estimators[2].checkpoint = OpticalFlowCheckpoint

C6_Witness ==
    /\ Reached("initialize_estimators")
    /\ depth_checkpoint = ""
    /\ Len(sf_estimators) = 1

MarkerNames == {"x_traj.json", "rgb.txt", "image_2", "camera_gt.csv"}
Markers(d) ==
    {c \in Nodes : Parent(c) = d /\ fs[c].kind # "absent"
                   /\ fs[c].name \in MarkerNames}
TrajectoryDirs == {d \in Nodes : fs[d].kind = "dir" /\ Markers(d) # {}}

\* C7: get_all_trajectories returns exactly the directories below the root
\* that directly hold a marker, each once; nothing when there is none.
C7_Discovery ==
    pc = "returned" =>
        /\ {trajectories[i] : i \in 1..Len(trajectories)}
               = {PathOf(d) : d \in TrajectoryDirs}
        /\ Len(trajectories) = Cardinality(TrajectoryDirs)
        /\ \A i, j \in 1..Len(trajectories) :
               trajectories[i] = trajectories[j] => i = j
        /\ TrajectoryDirs = {} => trajectories = <<>>
        /\ error = "none"

C7_Witness ==
    /\ pc = "returned"
    /\ \E d \in TrajectoryDirs : Cardinality(Markers(d)) = 2
    /\ \E d \in Nodes : fs[d].kind = "dir" /\ d \notin TrajectoryDirs
    /\ Len(trajectories) = 2

First(name) == CHOOSE j \in Steps(name) : \A k \in Steps(name) : j <= k

\* C8: the resource limit precedes the construction of the estimators; the
\* chains are constructed once and config.json written once, both before the
\* first trajectory; the trajectories are processed one at a time in
\* discovery order, all with those two chains.
C8_RunOrder ==
    /\ Reached("initialize_estimators") =>
           /\ Reached("limit_resources")
           /\ First("limit_resources") < First("initialize_estimators")
           /\ Cardinality(Steps("initialize_estimators")) = 1
    /\ Cardinality(Steps("write_config")) <= 1
    /\ Len(calls) > 0 \/ Reached("construct_parser") =>
           /\ Cardinality(Steps("initialize_estimators")) = 1
           /\ Cardinality(Steps("write_config")) = 1
           /\ \A j \in 1..Len(log) : log[j].i >= 1 =>
                  /\ First("initialize_estimators") < j
                  /\ First("write_config") < j
    /\ \A j, k \in 1..Len(log) : j <= k => log[j].i <= log[k].i
    /\ \A c \in 1..Len(calls) :
           /\ calls[c].trajectory = trajectories[c]
           /\ calls[c].sf = calls[1].sf
           /\ calls[c].pf = calls[1].pf
           /\ calls[c].sf = sf_estimators
           /\ calls[c].pf = pf_estimators
    /\ n_built <= 4
    /\ pc = "done" =>
           /\ Len(calls) = Len(trajectories)
           /\ Cardinality(Steps("to_csv")) = Len(trajectories)

C8_Witness ==
    /\ pc = "done"
    /\ Len(calls) = 3

\* C9: an unknown loss name or an optimizer other than 'adam' fails in the
\* constructor, before construct() builds a model, so a constructed
\* ModelFactory holds a known loss function or the caller's callable.
C9_FactoryFailsFast ==
    /\ factory.pc \in {"constructed", "compile", "compiled", "returned",
                       "construct_raised"} =>
           /\ factory.loss_fn \in KnownLossFns \cup {"custom_loss"}
           /\ factory.optimizer = "adam"
    /\ factory.error # "none" => factory.model = None

\* C10: no two trajectories of one run write their df.csv to the same path,
\* so no df.csv is overwritten by a later trajectory.
C10_CsvPathsDistinct ==
    /\ \A j, k \in Steps("to_csv") : log[j].path = log[k].path => j = k
    /\ \A j \in Steps("to_csv") :
           [path |-> log[j].path,
            content |-> [kind |-> "csv", of |-> trajectories[log[j].i]]] \in disk

C10_Witness ==
    /\ pc = "done"
    /\ \E j, k \in Steps("to_csv") :
           /\ j # k
           /\ basename(trajectories[log[j].i]) = basename(trajectories[log[k].i])

====
